---- MODULE Spec2Model ----
(***************************************************************************)
(* Flood monitoring presentation layer: the web dashboard                  *)
(* (FloodMonitoringAPI + FloodMonitoringDashboard + StatusCards + FloodMap)*)
(* and the mobile app (apiService + HomeScreen).                           *)
(*                                                                         *)
(* Flood probabilities are integer percents (0.4 is 40).  A reading's      *)
(* timestamp is a sequence number.              risk_level "NONE" stands  *)
(* for an absent (undefined) label.                                        *)
(***************************************************************************)
EXTENDS Integers, Sequences, FiniteSets, TLC

\* ------------------------------------------------------------------ bounds
MaxTs == 1            \* backend messages in Spec
MaxBufferTs == 32     \* backend messages in SpecBuffer
MaxSockets == 2       \* WebSocket objects ever created
MaxBufferSockets == 2 \* WebSocket objects ever created in SpecBuffer
MaxUiTs == 1          \* backend messages in SpecUi
MaxUiSockets == 1     \* WebSocket objects ever created in SpecUi
MaxTimers == 2        \* reconnect timers pending at once
MaxMounts == 2        \* times the dashboard component is mounted
MaxInFlight == 1      \* pushed messages not yet received by a socket
MaxAutoInflight == 2  \* auto-send requests awaiting their response

TimeStep == 30       \* minutes by which the clock advances in one step
MaxClock == 90       \* the clock stops advancing here
MaxIntervals == 2     \* setInterval calls of the mobile HomeScreen

\* ------------------------------------------------------- program constants
ReconnectDelay == 5000   \* api.ts:167
SliceKeep == 49          \* dashboard: prev.slice(-49)
AlertsKeep == 20         \* dashboard: .slice(-20)
InitialLimit == 20       \* dashboard: getRecentReadings(20)
NumSensors == 5          \* dashboard: sensorLocations
HistoryKeep == 50        \* App.tsx: alerts.slice(0, 50)

\* ------------------------------------------------------------------ inputs
Labels == {"NONE", "LOW", "MILD", "HIGH", "SEVERE", "severe"}
Probs == {20, 85}
Unparsable == [parsable |-> FALSE, floodProbability |-> 0, risk_level |-> "NONE"]
AllPayloads == [parsable : {TRUE}, floodProbability : Probs, risk_level : Labels]
                 \cup {Unparsable}
Payloads == {Unparsable,
             [parsable |-> TRUE, floodProbability |-> 20, risk_level |-> "LOW"],
             [parsable |-> TRUE, floodProbability |-> 85, risk_level |-> "SEVERE"]}
BufferPayloads == {[parsable |-> TRUE, floodProbability |-> 20, risk_level |-> "LOW"]}
\* how many readings GET /api/recent-readings?limit=20 answers with
InitialCounts == {0, 1, InitialLimit}
\* outcomes of Math.random() > 0.8 over the five sensors (initializeSensors)
SensorPatterns == { [i \in 1..NumSensors |-> "online"],
                    [i \in 1..NumSensors |-> IF i = 2 THEN "warning" ELSE "online"] }

BufferPatterns == { [i \in 1..NumSensors |-> "online"] }

\* what GET /api/recent-readings?limit=1 answers the mobile app with
MobilePayloads == { [floodProbability |-> 20, risk_level |-> "LOW"],
                    [floodProbability |-> 45, risk_level |-> "MILD"],
                    [floodProbability |-> 65, risk_level |-> "HIGH"],
                    [floodProbability |-> 85, risk_level |-> "LOW"] }
CooldownPayloads == { [floodProbability |-> 45, risk_level |-> "MILD"],
                      [floodProbability |-> 85, risk_level |-> "SEVERE"] }
RisePayloads == { [floodProbability |-> 0, risk_level |-> "LOW"],
                  [floodProbability |-> 10, risk_level |-> "LOW"],
                  [floodProbability |-> 85, risk_level |-> "SEVERE"] }
Procs == {"load", "poll"}

VARIABLES
  \* FloodMonitoringAPI (singleton floodAPI) and the sockets it created
  sockets,       \* every WebSocket created, in creation order: [state, recv], recv
                 \* the messages an open socket has received (0 when not open)
  ws,            \* this.ws: index into sockets, 0 for null
  wsListeners,   \* this.wsListeners: Seq of listener ids (the registering mount)
  timers,        \* pending setTimeout reconnects: Seq of delays
  delivered,     \* listeners invoked by the last onmessage event, in call order
  backendLog,    \* messages the backend has pushed so far
  \* FloodMonitoringDashboard
  mountId,       \* the mounted component instance, 0 when unmounted
  mountCount,    \* instances mounted so far
  initPc,        \* initializeBackend of each instance: where it is suspended
  refreshPc,     \* handleRefreshConnection: instance awaiting isBackendReachable, or 0
  ctlPc,         \* handleStart/StopMonitoring awaiting its POST: [op, inst]
  data, currentData, isConnected, isMonitoring, sensors, alerts,
  autoInflight   \* triggerAutoAlerts calls suspended at await fetch

webVars == <<sockets, ws, wsListeners, timers, delivered, backendLog, mountId,
             mountCount, initPc, refreshPc, ctlPc, data, currentData, isConnected,
             isMonitoring, sensors, alerts, autoInflight>>

VARIABLES
  \* mobile app: AsyncStorage
  lastRiskLevel,      \* item 'lastRiskLevel': the stored percent, NullItem when absent
  lastFloodAlert,     \* item 'lastFloodAlert': the stored time, NullItem when absent
  alertHistory,       \* item 'alertHistory': the alerts' riskLevel, newest first
  \* mobile app: HomeScreen and the calls in flight
  now,                \* Date.now(), in minutes
  proc,               \* per caller of getFloodStatus: where it is suspended, its locals
  floodData,          \* HomeScreen state floodData
  hsMounted,          \* HomeScreen is mounted
  monitoringInterval, \* the effect's variable: index into intervals, 0 when unset
  intervals,          \* every setInterval timer created: its minutes, 0 once cleared
  alertsShown,        \* Alert.alert dialogs raised by showFloodAlert
  lastAlertAt         \* Date.now() when the latest dialog was raised, NullItem if none

mobVars == <<lastRiskLevel, lastFloodAlert, alertHistory, now, proc, floodData,
             hsMounted, monitoringInterval, intervals, alertsShown, lastAlertAt>>

vars == <<webVars, mobVars>>

\* ---------------------------------------------------------------- helpers
NoData == [timestamp |-> 0, floodProbability |-> 0, risk_level |-> "NONE"]

Reading(ts, p) == [timestamp |-> ts, floodProbability |-> p.floodProbability,
                   risk_level |-> p.risk_level]

\* slice(n) written for slice(-n): drops the first n elements
SliceLastSign(s, n) == IF Len(s) <= n THEN <<>> ELSE SubSeq(s, n + 1, Len(s))

\* Array.prototype.slice(-n)
SliceLast(s, n) == IF Len(s) <= n THEN s ELSE SubSeq(s, Len(s) - n + 1, Len(s))

RECURSIVE CountIn(_, _)
CountIn(s, x) == IF s = <<>> THEN 0
                 ELSE (IF Head(s) = x THEN 1 ELSE 0) + CountIn(Tail(s), x)

\* String.prototype.toUpperCase on the labels of Labels
ToUpperCase(l) ==
  CASE l = "severe" -> "SEVERE"
    [] l = "high" -> "HIGH"
    [] l = "mild" -> "MILD"
    [] l = "low" -> "LOW"
    [] OTHER -> l

\* ------------------------------------------------------------- StatusCards
StatusCardColor(cd) ==
  IF cd = NoData THEN "text-gray-400"
  ELSE IF cd.risk_level = "NONE" THEN "text-gray-600"
  ELSE IF cd.risk_level = "LOW" THEN "text-green-600"
  ELSE IF cd.risk_level = "MILD" THEN "text-yellow-600"
  ELSE IF cd.risk_level = "HIGH" THEN "text-orange-600"
  ELSE "text-red-600"

\* ---------------------------------------------------------------- FloodMap
getModelRiskColorClass(riskLevel) ==
  CASE ToUpperCase(riskLevel) = "SEVERE" -> "bg-red-500"
    [] ToUpperCase(riskLevel) = "HIGH" -> "bg-orange-500"
    [] ToUpperCase(riskLevel) = "MILD" -> "bg-yellow-500"
    [] ToUpperCase(riskLevel) = "LOW" -> "bg-green-500"
    [] OTHER -> "bg-gray-500"

getMarkerColor(risk) ==
  IF risk < 30 THEN "#22c55e"
  ELSE IF risk < 50 THEN "#eab308"
  ELSE IF risk < 70 THEN "#f97316"
  ELSE "#ef4444"

labelBgColor(floodRisk) ==
  IF floodRisk > 70 THEN "rgba(239, 68, 68, 0.9)" ELSE "rgba(0,0,0,0.7)"

\* every risk colour the dashboard shows for the reading cd
RiskColours(cd) ==
  [card |-> StatusCardColor(cd),
   headerDot |-> getModelRiskColorClass(cd.risk_level),
   marker |-> getMarkerColor(cd.floodProbability),
   label |-> labelBgColor(cd.floodProbability)]

\* --------------------------------------------------------------- dashboard
initializeSensors(pattern) ==
  [i \in 1..NumSensors |-> [status |-> pattern[i], risk_level |-> "NONE"]]

RECURSIVE generateAlerts(_)
generateAlerts(sensorData) ==
  IF sensorData = <<>> THEN <<>>
  ELSE LET sensor == Head(sensorData)
           risk == IF sensor.risk_level \in {"SEVERE", "HIGH"}
                   THEN <<IF sensor.risk_level = "SEVERE" THEN "critical" ELSE "warning">>
                   ELSE <<>>
           comm == IF sensor.status = "warning" THEN <<"warning">> ELSE <<>>
       IN risk \o comm \o generateAlerts(Tail(sensorData))

\* the "Generate alerts" effect, run after a render in which sensors was set
\* (a fresh array every time) or isMonitoring changed
AlertsEffect(base, newSensors, newMon, changed) ==
  IF changed /\ Len(newSensors) > 0 /\ newMon
  THEN SliceLast(base \o generateAlerts(newSensors), AlertsKeep)
  ELSE base

\* setState of an unmounted instance is a no-op
Live(i) == i # 0 /\ i = mountId

\* the callback with setData left out of the synchronous part
ListenerNoData(i, r, st) ==
  LET s1 == IF Live(i)
            THEN [st EXCEPT !.currentData = r, !.isConnected = TRUE]
            ELSE st
  IN IF r.risk_level # "NONE" /\ ToUpperCase(r.risk_level) \in {"HIGH", "SEVERE"}
     THEN [s1 EXCEPT !.autoInflight = @ + 1]
     ELSE s1

\* the onRealtimeData callback of instance i, on reading r; st is the state it
\* updates: [data, currentData, isConnected, autoInflight, delivered]
Listener(i, r, st) ==
  LET s1 == IF Live(i)
            THEN [st EXCEPT !.currentData = r,
                            !.data = Append(SliceLast(st.data, SliceKeep), r),
                            !.isConnected = TRUE]
            ELSE st
  IN IF r.risk_level # "NONE" /\ ToUpperCase(r.risk_level) \in {"HIGH", "SEVERE"}
     THEN [s1 EXCEPT !.autoInflight = @ + 1]   \* triggerAutoAlerts(...)
     ELSE s1

\* forEach that stops after the first listener
ForEachListenerFirstOnly(ls, r, st) ==
  IF ls = <<>> THEN st
  ELSE [Listener(Head(ls), r, st) EXCEPT !.delivered = Append(@, Head(ls))]

\* this.wsListeners.forEach(listener => listener(data))
RECURSIVE ForEachListener(_, _, _)
ForEachListener(ls, r, st) ==
  IF ls = <<>> THEN st
  ELSE ForEachListener(Tail(ls), r,
         [Listener(Head(ls), r, st) EXCEPT !.delivered = Append(@, Head(ls))])

\* --------------------------------------------------- FloodMonitoringAPI
NewSocket == [state |-> "connecting", recv |-> 0]

\* ws.onopen
OnOpen(s) ==
  /\ s \in 1..Len(sockets)
  /\ sockets[s].state = "connecting"
  /\ sockets' = [sockets EXCEPT ![s] = [state |-> "open", recv |-> Len(backendLog)]]
  /\ UNCHANGED mobVars
  /\ UNCHANGED <<ws, wsListeners, timers, delivered, backendLog, mountId, mountCount,
                 initPc, refreshPc, ctlPc, data, currentData, isConnected,
                 isMonitoring, sensors, alerts, autoInflight>>

\* the backend pushes one message to the sockets connected to /ws
BackendPush(p, maxTs) ==
  /\ Len(backendLog) < maxTs
  /\ \E s \in 1..Len(sockets) : sockets[s].state = "open"
  /\ \A s \in 1..Len(sockets) :
        sockets[s].state = "open" => Len(backendLog) - sockets[s].recv < MaxInFlight
  /\ backendLog' = Append(backendLog, p)
  /\ UNCHANGED mobVars
  /\ UNCHANGED <<sockets, ws, wsListeners, timers, delivered, mountId, mountCount,
                 initPc, refreshPc, ctlPc, data, currentData, isConnected,
                 isMonitoring, sensors, alerts, autoInflight>>

\* ws.onmessage
OnMessage(s) ==
  /\ s \in 1..Len(sockets)
  /\ sockets[s].state = "open"
  /\ sockets[s].recv < Len(backendLog)
  /\ LET ts == sockets[s].recv + 1
         m == backendLog[ts]
         r == Reading(InitialLimit + ts, m)
         st0 == [data |-> data, currentData |-> currentData, isConnected |-> isConnected,
                 autoInflight |-> autoInflight, delivered |-> <<>>]
         st1 == IF m.parsable THEN ForEachListener(wsListeners, r, st0)
                ELSE st0   \* JSON.parse throws: caught and logged
     IN /\ st1.autoInflight <= MaxAutoInflight
        /\ sockets' = [sockets EXCEPT ![s].recv = ts]
        /\ data' = st1.data
        /\ currentData' = st1.currentData
        /\ isConnected' = st1.isConnected
        /\ autoInflight' = st1.autoInflight
        /\ delivered' = st1.delivered
  /\ UNCHANGED mobVars
  /\ UNCHANGED <<ws, wsListeners, timers, backendLog, mountId, mountCount, initPc,
                 refreshPc, ctlPc, isMonitoring, sensors, alerts>>

\* ws.onerror: logs; the failed connection is then closed by the browser
OnError(s) ==
  /\ s \in 1..Len(sockets)
  /\ sockets[s].state \in {"connecting", "open"}
  /\ sockets' = [sockets EXCEPT ![s] = [state |-> "closing", recv |-> 0]]
  /\ UNCHANGED mobVars
  /\ UNCHANGED <<ws, wsListeners, timers, delivered, backendLog, mountId,
                 mountCount, initPc, refreshPc, ctlPc, data, currentData, isConnected,
                 isMonitoring, sensors, alerts, autoInflight>>

\* ws.onclose with a delay that grows with the sockets created so far
OnCloseBackoff(s) ==
  /\ s \in 1..Len(sockets)
  /\ sockets[s].state \in {"connecting", "open", "closing"}
  /\ Len(timers) < MaxTimers
  /\ sockets' = [sockets EXCEPT ![s] = [state |-> "closed", recv |-> 0]]
  /\ timers' = Append(timers, ReconnectDelay * Len(sockets))
  /\ UNCHANGED mobVars
  /\ UNCHANGED <<ws, wsListeners, delivered, backendLog, mountId, mountCount, initPc,
                 refreshPc, ctlPc, data, currentData, isConnected, isMonitoring,
                 sensors, alerts, autoInflight>>

\* ws.onclose: log and setTimeout(() => this.connectWebSocket(), 5000)
OnClose(s) ==
  /\ s \in 1..Len(sockets)
  /\ sockets[s].state \in {"connecting", "open", "closing"}
  /\ Len(timers) < MaxTimers
  /\ sockets' = [sockets EXCEPT ![s] = [state |-> "closed", recv |-> 0]]
  /\ timers' = Append(timers, ReconnectDelay)
  /\ UNCHANGED mobVars
  /\ UNCHANGED <<ws, wsListeners, delivered, backendLog, mountId, mountCount, initPc,
                 refreshPc, ctlPc, data, currentData, isConnected, isMonitoring,
                 sensors, alerts, autoInflight>>

\* the reconnect timer fires: this.connectWebSocket()
ReconnectTimer(maxSockets) ==
  /\ timers # <<>>
  /\ Len(sockets) < maxSockets
  /\ timers' = Tail(timers)
  /\ sockets' = Append(sockets, NewSocket)
  /\ ws' = Len(sockets) + 1
  /\ UNCHANGED mobVars
  /\ UNCHANGED <<wsListeners, delivered, backendLog, mountId, mountCount, initPc,
                 refreshPc, ctlPc, data, currentData, isConnected, isMonitoring,
                 sensors, alerts, autoInflight>>

\* disconnectWebSocket: close and forget the current socket, drop the listeners
DisconnectSockets ==
  IF ws # 0 /\ sockets[ws].state \in {"connecting", "open"}
  THEN [sockets EXCEPT ![ws] = [state |-> "closing", recv |-> 0]]
  ELSE sockets

\* ------------------------------------- GET /api/recent-readings?limit=N
\* the backend answers with its n most recent readings (n <= limit); they
\* predate the session and carry the timestamps 1..n
getRecentReadings(n, p) == [k \in 1..n |-> Reading(k, p)]

\* ------------------------------------------- FloodMonitoringDashboard
\* the catch block of initializeBackend
InitCatch(i, pattern) ==
  /\ initPc' = [initPc EXCEPT ![i] = "done"]
  /\ IF Live(i)
     THEN /\ isConnected' = FALSE
          /\ sensors' = initializeSensors(pattern)
          /\ alerts' = AlertsEffect(alerts, initializeSensors(pattern), isMonitoring, TRUE)
     ELSE UNCHANGED <<isConnected, sensors, alerts>>

\* initializeBackend resumes from await floodAPI.isBackendReachable()
InitReachable(i, isReachable, pattern) ==
  /\ i \in 1..MaxMounts
  /\ initPc[i] = "reachable"
  /\ IF isReachable
     THEN /\ initPc' = [initPc EXCEPT ![i] = "status"]
          /\ isConnected' = IF Live(i) THEN TRUE ELSE isConnected
          /\ UNCHANGED <<sensors, alerts>>
     ELSE /\ initPc' = [initPc EXCEPT ![i] = "done"]
          /\ IF Live(i)
             THEN /\ isConnected' = FALSE
                  /\ sensors' = initializeSensors(pattern)
                  /\ alerts' = AlertsEffect(alerts, initializeSensors(pattern),
                                            isMonitoring, TRUE)
             ELSE UNCHANGED <<isConnected, sensors, alerts>>
  /\ UNCHANGED mobVars
  /\ UNCHANGED <<sockets, ws, wsListeners, timers, delivered, backendLog, mountId,
                 mountCount, refreshPc, ctlPc, data, currentData, isMonitoring,
                 autoInflight>>

\* initializeBackend resumes from await floodAPI.getStatus()
InitStatus(i, ok, is_monitoring, pattern) ==
  /\ i \in 1..MaxMounts
  /\ initPc[i] = "status"
  /\ IF ok
     THEN /\ initPc' = [initPc EXCEPT ![i] = "readings"]
          /\ isMonitoring' = IF Live(i) THEN is_monitoring ELSE isMonitoring
          /\ alerts' = IF Live(i)
                       THEN AlertsEffect(alerts, sensors, is_monitoring,
                                         is_monitoring # isMonitoring)
                       ELSE alerts
          /\ UNCHANGED <<isConnected, sensors>>
     ELSE /\ InitCatch(i, pattern)
          /\ UNCHANGED isMonitoring
  /\ UNCHANGED mobVars
  /\ UNCHANGED <<sockets, ws, wsListeners, timers, delivered, backendLog, mountId,
                 mountCount, refreshPc, ctlPc, data, currentData, autoInflight>>

\* initializeBackend resumes from await floodAPI.getRecentReadings(20), then
\* connects the WebSocket and registers its listener
InitReadings(i, ok, n, p, pattern, maxSockets) ==
  /\ i \in 1..MaxMounts
  /\ initPc[i] = "readings"
  /\ IF ok
     THEN LET recentReadings == getRecentReadings(n, p)
          IN /\ Len(sockets) < maxSockets
             /\ initPc' = [initPc EXCEPT ![i] = "done"]
             /\ data' = IF Live(i) THEN recentReadings ELSE data
             /\ currentData' = IF Live(i) /\ Len(recentReadings) > 0
                               THEN recentReadings[Len(recentReadings)]
                               ELSE currentData
             /\ sockets' = Append(sockets, NewSocket)
             /\ ws' = Len(sockets) + 1
             /\ wsListeners' = Append(wsListeners, i)
             /\ UNCHANGED <<isConnected, sensors, alerts>>
     ELSE /\ InitCatch(i, pattern)
          /\ UNCHANGED <<data, currentData, sockets, ws, wsListeners>>
  /\ UNCHANGED mobVars
  /\ UNCHANGED <<timers, delivered, backendLog, mountId, mountCount, refreshPc, ctlPc,
                 isMonitoring, autoInflight>>

\* triggerAutoAlerts resumes from await fetch(.../api/alerts/auto-send)
AutoAlertDone(outcome) ==
  /\ autoInflight > 0
  /\ autoInflight' = autoInflight - 1
  /\ UNCHANGED mobVars
  /\ UNCHANGED <<sockets, ws, wsListeners, timers, delivered, backendLog, mountId,
                 mountCount, initPc, refreshPc, ctlPc, data, currentData, isConnected,
                 isMonitoring, sensors, alerts>>

\* handleResetSystem ("Clear Data")
HandleResetSystem(pattern) ==
  /\ mountId # 0
  /\ data' = <<>>
  /\ sensors' = initializeSensors(pattern)
  /\ alerts' = AlertsEffect(<<>>, initializeSensors(pattern), isMonitoring, TRUE)
  /\ currentData' = NoData
  /\ isConnected' = FALSE
  /\ UNCHANGED mobVars
  /\ UNCHANGED <<sockets, ws, wsListeners, timers, delivered, backendLog, mountId,
                 mountCount, initPc, refreshPc, ctlPc, isMonitoring, autoInflight>>

\* handleRefreshConnection up to await floodAPI.isBackendReachable()
RefreshClick ==
  /\ mountId # 0
  /\ refreshPc = 0
  /\ refreshPc' = mountId
  /\ UNCHANGED mobVars
  /\ UNCHANGED <<sockets, ws, wsListeners, timers, delivered, backendLog, mountId,
                 mountCount, initPc, ctlPc, data, currentData, isConnected,
                 isMonitoring, sensors, alerts, autoInflight>>

\* handleRefreshConnection resumes
RefreshDone(isReachable, maxSockets) ==
  /\ refreshPc # 0
  /\ refreshPc' = 0
  /\ isConnected' = IF Live(refreshPc) THEN isReachable ELSE isConnected
  /\ IF isReachable
     THEN /\ Len(sockets) < maxSockets
          /\ sockets' = Append(sockets, NewSocket)
          /\ ws' = Len(sockets) + 1
     ELSE UNCHANGED <<sockets, ws>>
  /\ UNCHANGED mobVars
  /\ UNCHANGED <<wsListeners, timers, delivered, backendLog, mountId, mountCount,
                 initPc, ctlPc, data, currentData, isMonitoring, sensors, alerts,
                 autoInflight>>

\* handleStartMonitoring / handleStopMonitoring up to their await
ControlClick ==
  /\ mountId # 0
  /\ ctlPc.op = "idle"
  /\ \/ /\ ~isMonitoring
        /\ isConnected
        /\ ctlPc' = [op |-> "starting", inst |-> mountId]
     \/ /\ isMonitoring
        /\ ctlPc' = [op |-> "stopping", inst |-> mountId]
  /\ UNCHANGED mobVars
  /\ UNCHANGED <<sockets, ws, wsListeners, timers, delivered, backendLog, mountId,
                 mountCount, initPc, refreshPc, data, currentData, isConnected,
                 isMonitoring, sensors, alerts, autoInflight>>

\* handleStartMonitoring / handleStopMonitoring resume
ControlDone(ok) ==
  /\ ctlPc.op # "idle"
  /\ ctlPc' = [op |-> "idle", inst |-> 0]
  /\ IF ok /\ Live(ctlPc.inst)
     THEN LET mon == (ctlPc.op = "starting")
          IN /\ isMonitoring' = mon
             /\ isConnected' = IF mon THEN TRUE ELSE isConnected
             /\ alerts' = AlertsEffect(alerts, sensors, mon, mon # isMonitoring)
     ELSE UNCHANGED <<isMonitoring, isConnected, alerts>>   \* caught and logged
  /\ UNCHANGED mobVars
  /\ UNCHANGED <<sockets, ws, wsListeners, timers, delivered, backendLog, mountId,
                 mountCount, initPc, refreshPc, data, currentData, sensors,
                 autoInflight>>

\* the effect's cleanup: floodAPI.disconnectWebSocket()
Unmount ==
  /\ mountId # 0
  /\ mountId' = 0
  /\ sockets' = DisconnectSockets
  /\ ws' = 0
  /\ wsListeners' = <<>>
  /\ UNCHANGED mobVars
  /\ UNCHANGED <<timers, delivered, backendLog, mountCount, initPc, refreshPc, ctlPc,
                 data, currentData, isConnected, isMonitoring, sensors, alerts,
                 autoInflight>>

\* a fresh instance mounts: useState initial values, then initializeBackend()
\* runs up to its first await
Mount ==
  /\ mountId = 0
  /\ mountCount < MaxMounts
  /\ mountCount' = mountCount + 1
  /\ mountId' = mountCount + 1
  /\ initPc' = [initPc EXCEPT ![mountCount + 1] = "reachable"]
  /\ data' = <<>>
  /\ currentData' = NoData
  /\ isConnected' = FALSE
  /\ isMonitoring' = FALSE
  /\ sensors' = <<>>
  /\ alerts' = <<>>
  /\ UNCHANGED mobVars
  /\ UNCHANGED <<sockets, ws, wsListeners, timers, delivered, backendLog, refreshPc,
                 ctlPc, autoInflight>>

\* ------------------------------------------------------ mobile apiService
NullItem == -1

\* Array.prototype.slice(0, n)
SliceFirst(s, n) == IF Len(s) <= n THEN s ELSE SubSeq(s, 1, n)

\* getFloodStatus: "Convert backend data to frontend format"
deriveRiskLevel(floodProbability) ==
  IF floodProbability >= 80 THEN "severe"
  ELSE IF floodProbability >= 60 THEN "high"
  ELSE IF floodProbability >= 40 THEN "mild"
  ELSE "low"

\* the fallback status getFloodStatus returns without a reading
FallbackStatus == [riskLevel |-> "low", fromBackend |-> FALSE, label |-> "NONE"]

NoStatus == [riskLevel |-> "", fromBackend |-> FALSE, label |-> "NONE"]

\* checkRiskAndNotify: shouldAlert
shouldAlert(currentRisk, previousRisk) ==
  currentRisk >= 40 \/ (previousRisk # 0 /\ currentRisk - previousRisk >= 5)

\* checkRiskAndNotify: cooldownTime, in minutes
cooldownTime(currentRisk) == IF currentRisk >= 70 THEN 30 ELSE 60

\* the cooldown counted as elapsed already at its last minute
shouldShowAlertAtLimit(lastAlertTime, t, currentRisk) ==
  lastAlertTime = NullItem \/ (t - lastAlertTime) >= cooldownTime(currentRisk)

\* checkRiskAndNotify: shouldShowAlert
shouldShowAlert(lastAlertTime, t, currentRisk) ==
  lastAlertTime = NullItem \/ (t - lastAlertTime) > cooldownTime(currentRisk)

\* checkRiskAndNotify: the condition of the SMS request
shouldSendSms(currentRisk, riskLevel) ==
  currentRisk >= 70 \/ riskLevel = "high" \/ riskLevel = "severe"

\* the cases of high and mild exchanged
intervalMinutesSwapped(riskLevel) ==
  CASE riskLevel = "severe" -> 1
    [] riskLevel = "high" -> 5
    [] riskLevel = "mild" -> 2
    [] OTHER -> 10

\* checkAndUpdateInterval: the switch over riskLevel
intervalMinutes(riskLevel) ==
  CASE riskLevel = "severe" -> 1
    [] riskLevel = "high" -> 2
    [] riskLevel = "mild" -> 5
    [] OTHER -> 10

IdleProc == [pc |-> "idle", stage |-> 0, cur |-> 0, label |-> "NONE", riskLevel |-> "",
             t |-> 0, hist |-> <<>>, after |-> "", result |-> NoStatus]

FetchProc(stage) == [IdleProc EXCEPT !.pc = "fetch", !.stage = stage]

\* getFloodStatus resumes from await fetch(.../api/recent-readings?limit=1)
\* (and, with a reading, from await getRecommendations())
GfsFetch(p, outcome, m) ==
  /\ proc[p].pc = "fetch"
  /\ IF outcome = "reading"
     THEN proc' = [proc EXCEPT ![p].pc = "readPrev",
                               ![p].cur = m.floodProbability,
                               ![p].label = m.risk_level,
                               ![p].riskLevel = deriveRiskLevel(m.floodProbability)]
     ELSE \* request failed, non-OK status, or an empty array
          proc' = [proc EXCEPT ![p].pc = "ret", ![p].result = FallbackStatus]
  /\ UNCHANGED <<lastRiskLevel, lastFloodAlert, alertHistory, now, floodData, hsMounted,
                 monitoringInterval, intervals, alertsShown, lastAlertAt>>
  /\ UNCHANGED webVars

\* the status getFloodStatus returns for the reading it fetched
StatusOf(q) == [riskLevel |-> q.riskLevel, fromBackend |-> TRUE, label |-> q.label]

\* getFloodStatus resumes from await AsyncStorage.getItem('lastRiskLevel');
\* with a stored value it is inside checkRiskAndNotify up to its first await
GfsReadPrev(p) ==
  /\ proc[p].pc = "readPrev"
  /\ proc' = [proc EXCEPT
       ![p].pc = IF lastRiskLevel = NullItem THEN "firstStore"
                 ELSE IF shouldAlert(proc[p].cur, lastRiskLevel) THEN "readLast"
                 ELSE "ret",
       ![p].result = StatusOf(proc[p])]
  /\ UNCHANGED <<lastRiskLevel, lastFloodAlert, alertHistory, now, floodData, hsMounted,
                 monitoringInterval, intervals, alertsShown, lastAlertAt>>
  /\ UNCHANGED webVars

\* "First time": setItem('lastRiskLevel') done, then showFloodAlert if >= 0.4
GfsFirstStore(p) ==
  /\ proc[p].pc = "firstStore"
  /\ lastRiskLevel' = proc[p].cur
  /\ proc' = [proc EXCEPT ![p].pc = IF proc[p].cur >= 40 THEN "histRead" ELSE "ret",
                          ![p].after = "ret"]
  /\ UNCHANGED <<lastFloodAlert, alertHistory, now, floodData, hsMounted,
                 monitoringInterval, intervals, alertsShown, lastAlertAt>>
  /\ UNCHANGED webVars

\* checkRiskAndNotify resumes from await AsyncStorage.getItem('lastFloodAlert')
CrnReadLast(p) ==
  /\ proc[p].pc = "readLast"
  /\ proc' = [proc EXCEPT
       ![p].t = now,
       ![p].pc = IF shouldShowAlert(lastFloodAlert, now, proc[p].cur)
                 THEN "histRead" ELSE "setRisk",
       ![p].after = IF shouldSendSms(proc[p].cur, proc[p].riskLevel)
                    THEN "sms" ELSE "setLast"]
  /\ UNCHANGED <<lastRiskLevel, lastFloodAlert, alertHistory, now, floodData, hsMounted,
                 monitoringInterval, intervals, alertsShown, lastAlertAt>>
  /\ UNCHANGED webVars

\* showFloodAlert resumes from await this.getAlertHistory()
ShowHistRead(p) ==
  /\ proc[p].pc = "histRead"
  /\ proc' = [proc EXCEPT ![p].pc = "histWrite", ![p].hist = alertHistory]
  /\ UNCHANGED <<lastRiskLevel, lastFloodAlert, alertHistory, now, floodData, hsMounted,
                 monitoringInterval, intervals, alertsShown, lastAlertAt>>
  /\ UNCHANGED webVars

\* alerts.unshift(newAlert) and slice(0, 50)
UnshiftAlert(hist, newAlert) == SliceFirst(<<newAlert>> \o hist, HistoryKeep)

\* showFloodAlert resumes from await AsyncStorage.setItem('alertHistory', ...)
\* and raises the dialog
ShowHistWrite(p) ==
  /\ proc[p].pc = "histWrite"
  /\ alertHistory' = UnshiftAlert(proc[p].hist, proc[p].riskLevel)
  /\ alertsShown' = alertsShown + 1
  /\ lastAlertAt' = now
  /\ proc' = [proc EXCEPT ![p].pc = proc[p].after, ![p].hist = <<>>, ![p].after = ""]
  /\ UNCHANGED <<lastRiskLevel, lastFloodAlert, now, floodData, hsMounted,
                 monitoringInterval, intervals>>
  /\ UNCHANGED webVars

\* a failed POST leaving checkRiskAndNotify before lastFloodAlert is written
CrnSmsFailSkips(p, ok) ==
  /\ proc[p].pc = "sms"
  /\ proc' = [proc EXCEPT ![p].pc = IF ok THEN "setLast" ELSE "setRisk"]
  /\ UNCHANGED <<lastRiskLevel, lastFloodAlert, alertHistory, now, floodData, hsMounted,
                 monitoringInterval, intervals, alertsShown, lastAlertAt>>
  /\ UNCHANGED webVars

\* checkRiskAndNotify resumes from the POST of /api/alerts/auto-send, whatever
\* its outcome
CrnSms(p, ok) ==
  /\ proc[p].pc = "sms"
  /\ proc' = [proc EXCEPT ![p].pc = "setLast"]
  /\ UNCHANGED <<lastRiskLevel, lastFloodAlert, alertHistory, now, floodData, hsMounted,
                 monitoringInterval, intervals, alertsShown, lastAlertAt>>
  /\ UNCHANGED webVars

\* await AsyncStorage.setItem('lastFloodAlert', now.toString()) done
CrnSetLast(p) ==
  /\ proc[p].pc = "setLast"
  /\ lastFloodAlert' = proc[p].t
  /\ proc' = [proc EXCEPT ![p].pc = "setRisk", ![p].t = 0]
  /\ UNCHANGED <<lastRiskLevel, alertHistory, now, floodData, hsMounted,
                 monitoringInterval, intervals, alertsShown, lastAlertAt>>
  /\ UNCHANGED webVars

\* await AsyncStorage.setItem('lastRiskLevel', currentRisk.toString()) done
CrnSetRisk(p) ==
  /\ proc[p].pc = "setRisk"
  /\ lastRiskLevel' = proc[p].cur
  /\ proc' = [proc EXCEPT ![p].pc = "ret", ![p].t = 0]
  /\ UNCHANGED <<lastFloodAlert, alertHistory, now, floodData, hsMounted,
                 monitoringInterval, intervals, alertsShown, lastAlertAt>>
  /\ UNCHANGED webVars

\* ----------------------------------------------------------- HomeScreen
\* loadFloodData resumes from await apiService.getFloodStatus(): setFloodData
LoadReturn(p) ==
  /\ proc[p].pc = "ret"
  /\ p = "load" \/ proc[p].stage = 1
  /\ floodData' = IF hsMounted
                  THEN [riskLevel |-> proc[p].result.riskLevel,
                        fromBackend |-> proc[p].result.fromBackend]
                  ELSE floodData
  /\ proc' = [proc EXCEPT ![p] = IF p = "load" THEN IdleProc ELSE FetchProc(2)]
  /\ UNCHANGED <<lastRiskLevel, lastFloodAlert, alertHistory, now, hsMounted,
                 monitoringInterval, intervals, alertsShown, lastAlertAt>>
  /\ UNCHANGED webVars

\* checkAndUpdateInterval resumes from its own await apiService.getFloodStatus():
\* clearInterval(monitoringInterval), then setInterval by the risk level
PollReturn(p) ==
  /\ proc[p].pc = "ret"
  /\ p = "poll" /\ proc[p].stage = 2
  /\ LET cleared == IF monitoringInterval # 0
                    THEN [intervals EXCEPT ![monitoringInterval] = 0]
                    ELSE intervals
     IN intervals' = Append(cleared, intervalMinutes(proc[p].result.riskLevel))
  /\ monitoringInterval' = Len(intervals) + 1
  /\ proc' = [proc EXCEPT ![p] = IdleProc]
  /\ UNCHANGED <<lastRiskLevel, lastFloodAlert, alertHistory, now, floodData, hsMounted,
                 alertsShown, lastAlertAt>>
  /\ UNCHANGED webVars

\* a setInterval timer fires: checkAndUpdateInterval() up to its first await
IntervalTick(id) ==
  /\ id \in 1..Len(intervals)
  /\ intervals[id] # 0
  /\ Len(intervals) < MaxIntervals
  /\ proc["poll"].pc = "idle"
  /\ proc' = [proc EXCEPT !["poll"] = FetchProc(1)]
  /\ UNCHANGED <<lastRiskLevel, lastFloodAlert, alertHistory, now, floodData, hsMounted,
                 monitoringInterval, intervals, alertsShown, lastAlertAt>>
  /\ UNCHANGED webVars

\* the monitoring effect's cleanup
HomeUnmount ==
  /\ hsMounted
  /\ hsMounted' = FALSE
  /\ intervals' = IF monitoringInterval # 0
                  THEN [intervals EXCEPT ![monitoringInterval] = 0]
                  ELSE intervals
  /\ UNCHANGED <<lastRiskLevel, lastFloodAlert, alertHistory, now, proc, floodData,
                 monitoringInterval, alertsShown, lastAlertAt>>
  /\ UNCHANGED webVars

\* ------------------------------------------------------------ specification
Init ==
  /\ sockets = <<>>
  /\ ws = 0
  /\ wsListeners = <<>>
  /\ timers = <<>>
  /\ delivered = <<>>
  /\ backendLog = <<>>
  /\ mountId = 1
  /\ mountCount = 1
  /\ initPc = [i \in 1..MaxMounts |-> IF i = 1 THEN "reachable" ELSE "none"]
  /\ refreshPc = 0
  /\ ctlPc = [op |-> "idle", inst |-> 0]
  /\ data = <<>>
  /\ currentData = NoData
  /\ isConnected = FALSE
  /\ isMonitoring = FALSE
  /\ sensors = <<>>
  /\ alerts = <<>>
  /\ autoInflight = 0
  /\ lastRiskLevel = NullItem
  /\ lastFloodAlert = NullItem
  /\ alertHistory = <<>>
  /\ now = 0
  /\ proc = [p \in Procs |-> FetchProc(IF p = "poll" THEN 1 ELSE 0)]
  /\ floodData = [riskLevel |-> "", fromBackend |-> FALSE]
  /\ hsMounted = TRUE
  /\ monitoringInterval = 0
  /\ intervals = <<>>
  /\ alertsShown = 0
  /\ lastAlertAt = NullItem

\* connection lifecycle: mounting, initialisation, sockets, reconnects
Next ==
  \/ \E s \in 1..MaxSockets : OnOpen(s)
  \/ \E p \in Payloads : BackendPush(p, MaxTs)
  \/ \E s \in 1..MaxSockets : OnMessage(s)
  \/ \E s \in 1..MaxSockets : OnError(s)
  \/ \E s \in 1..MaxSockets : OnClose(s)
  \/ ReconnectTimer(MaxSockets)
  \/ \E i \in 1..MaxMounts, r \in BOOLEAN, pat \in SensorPatterns : InitReachable(i, r, pat)
  \/ \E i \in 1..MaxMounts, ok \in BOOLEAN, m \in BOOLEAN, pat \in SensorPatterns :
        InitStatus(i, ok, m, pat)
  \/ \E i \in 1..MaxMounts, ok \in BOOLEAN, n \in InitialCounts,
          p \in Payloads \ {Unparsable}, pat \in SensorPatterns :
        InitReadings(i, ok, n, p, pat, MaxSockets)
  \/ \E o \in {"ok", "rejected", "error"} : AutoAlertDone(o)
  \/ RefreshClick
  \/ \E r \in BOOLEAN : RefreshDone(r, MaxSockets)
  \/ Unmount
  \/ Mount

Spec == Init /\ [][Next]_vars

\* the dashboard's controls and what it renders, over every kind of reading
NextUi ==
  \/ \E s \in 1..MaxUiSockets : OnOpen(s)
  \/ \E p \in AllPayloads : BackendPush(p, MaxUiTs)
  \/ \E s \in 1..MaxUiSockets : OnMessage(s)
  \/ \E r \in BOOLEAN, pat \in SensorPatterns : InitReachable(1, r, pat)
  \/ \E ok \in BOOLEAN, m \in BOOLEAN, pat \in SensorPatterns : InitStatus(1, ok, m, pat)
  \/ \E ok \in BOOLEAN, n \in InitialCounts, p \in Payloads \ {Unparsable},
          pat \in SensorPatterns : InitReadings(1, ok, n, p, pat, MaxUiSockets)
  \/ \E o \in {"ok", "rejected", "error"} : AutoAlertDone(o)
  \/ \E pat \in SensorPatterns : HandleResetSystem(pat)
  \/ ControlClick
  \/ \E ok \in BOOLEAN : ControlDone(ok)

SpecUi == Init /\ [][NextUi]_vars

\* the readings buffer over a long stream of readings
NextBuffer ==
  \/ \E s \in 1..MaxBufferSockets : OnOpen(s)
  \/ \E p \in BufferPayloads : BackendPush(p, MaxBufferTs)
  \/ \E s \in 1..MaxBufferSockets : OnMessage(s)
  \/ \E r \in BOOLEAN, pat \in BufferPatterns : InitReachable(1, r, pat)
  \/ \E ok \in BOOLEAN, pat \in BufferPatterns : InitStatus(1, ok, FALSE, pat)
  \/ \E ok \in BOOLEAN, n \in InitialCounts, p \in BufferPayloads,
          pat \in BufferPatterns : InitReadings(1, ok, n, p, pat, MaxBufferSockets)
  \/ \E pat \in BufferPatterns : HandleResetSystem(pat)
  \/ RefreshClick
  \/ \E r \in BOOLEAN : RefreshDone(r, MaxBufferSockets)

SpecBuffer == Init /\ [][NextBuffer]_vars

\* the mobile app: HomeScreen's loads and polls over AsyncStorage
NextMobile ==
  \/ \E p \in Procs, o \in {"reading", "failed", "empty"}, m \in MobilePayloads :
        GfsFetch(p, o, m)
  \/ \E p \in Procs : GfsReadPrev(p)
  \/ \E p \in Procs : GfsFirstStore(p)
  \/ \E p \in Procs : CrnReadLast(p)
  \/ \E p \in Procs : ShowHistRead(p)
  \/ \E p \in Procs : ShowHistWrite(p)
  \/ \E p \in Procs, ok \in BOOLEAN : CrnSms(p, ok)
  \/ \E p \in Procs : CrnSetLast(p)
  \/ \E p \in Procs : CrnSetRisk(p)
  \/ \E p \in Procs : LoadReturn(p)
  \/ \E p \in Procs : PollReturn(p)
  \/ \E id \in 1..MaxIntervals : IntervalTick(id)
  \/ HomeUnmount

SpecMobile == Init /\ [][NextMobile]_vars

\* time passes between two steps of the app
Advance ==
  /\ now + TimeStep <= MaxClock
  /\ now' = now + TimeStep
  /\ UNCHANGED <<lastRiskLevel, lastFloodAlert, alertHistory, proc, floodData,
                 hsMounted, monitoringInterval, intervals, alertsShown, lastAlertAt>>
  /\ UNCHANGED webVars

\* the mobile app's checks over passing time: the alert cooldown
NextCooldown ==
  \/ \E p \in Procs, m \in CooldownPayloads : GfsFetch(p, "reading", m)
  \/ \E p \in Procs : GfsReadPrev(p)
  \/ \E p \in Procs : GfsFirstStore(p)
  \/ \E p \in Procs : CrnReadLast(p)
  \/ \E p \in Procs : ShowHistRead(p)
  \/ \E p \in Procs : ShowHistWrite(p)
  \/ \E p \in Procs, ok \in BOOLEAN : CrnSms(p, ok)
  \/ \E p \in Procs : CrnSetLast(p)
  \/ \E p \in Procs : CrnSetRisk(p)
  \/ \E p \in Procs : LoadReturn(p)
  \/ \E p \in Procs : PollReturn(p)
  \/ \E id \in 1..MaxIntervals : IntervalTick(id)
  \/ Advance

SpecCooldown == Init /\ [][NextCooldown]_vars

\* the mobile app's checks over small and rising probabilities
NextRise ==
  \/ \E p \in Procs, m \in RisePayloads : GfsFetch(p, "reading", m)
  \/ \E p \in Procs : GfsReadPrev(p)
  \/ \E p \in Procs : GfsFirstStore(p)
  \/ \E p \in Procs : CrnReadLast(p)
  \/ \E p \in Procs : ShowHistRead(p)
  \/ \E p \in Procs : ShowHistWrite(p)
  \/ \E p \in Procs, ok \in BOOLEAN : CrnSms(p, ok)
  \/ \E p \in Procs : CrnSetLast(p)
  \/ \E p \in Procs : CrnSetRisk(p)
  \/ \E p \in Procs : LoadReturn(p)
  \/ \E p \in Procs : PollReturn(p)
  \/ \E id \in 1..MaxIntervals : IntervalTick(id)

SpecRise == Init /\ [][NextRise]_vars

\* ==================================================================== claims

\* a step in which socket s hands one more message to ws.onmessage
MessageStep(s) ==
  /\ s \in 1..Len(sockets)
  /\ sockets[s].state = "open"
  /\ sockets'[s].state = "open"
  /\ sockets'[s].recv = sockets[s].recv + 1

\* the reading that step carries
MessageReading(s) ==
  Reading(InitialLimit + sockets'[s].recv, backendLog[sockets'[s].recv])

\* C1: the riskLevel a mobile getFloodStatus returns for a fetched reading is the
\* label the backend gave that reading (compared without regard to case)
C1_RiskLabelFromBackend ==
  \A p \in Procs :
    (proc[p].pc = "ret" /\ proc[p].result.fromBackend)
      => ToUpperCase(proc[p].result.riskLevel) = proc[p].result.label

\* C2: the dashboard's buffer never holds more than 50 readings; a reading
\* delivered to the mounted dashboard's listener is appended last, it evicts
\* exactly the oldest reading when the buffer is full and nothing otherwise
C2_BufferCapped ==
  [][ /\ Len(data') <= 50
      /\ \A s \in 1..Len(sockets) :
           (MessageStep(s) /\ CountIn(wsListeners, mountId) = 1)
             => data' = Append(IF Len(data) >= 50 THEN Tail(data) ELSE data,
                               MessageReading(s)) ]_vars

\* C2 witness: 20 initial readings and 31 pushed ones: reading 1 was evicted
C2_Witness ==
  /\ Len(data) = 50
  /\ data[1].timestamp = 2
  /\ data[50].timestamp = InitialLimit + 31

\* a step in which the close event of socket s is handled (ws.onclose)
CloseStep(s) ==
  /\ s \in 1..Len(sockets)
  /\ sockets[s].state # "closed"
  /\ sockets'[s].state = "closed"

\* C3: every close event schedules exactly one reconnect timer, always of 5000 ms
\* however many sockets were created and closed before, and every timer that
\* fires makes exactly one new connection attempt
C3_FixedDelayReconnect ==
  [][ /\ \A s \in 1..Len(sockets) : CloseStep(s) => timers' = Append(timers, 5000)
      /\ (timers # <<>> /\ timers' = Tail(timers))
           => /\ Len(sockets') = Len(sockets) + 1
              /\ sockets'[Len(sockets')].state = "connecting"
              /\ ws' = Len(sockets') ]_vars

\* C3 witness: the reconnected socket closed too, and its retry is pending
C3_Witness ==
  /\ Len(sockets) = 2
  /\ \A s \in 1..2 : sockets[s].state = "closed"
  /\ timers = <<5000>>
  /\ Len(wsListeners) = 1

\* C4: a completed poll sets the new interval from the risk label of the status
\* it fetched: severe 1, high 2, mild 5, anything else 10 minutes; a higher
\* label never polls more slowly than a lower one
C4_IntervalTable ==
  [][ Len(intervals') = Len(intervals) + 1 =>
        LET l == proc["poll"].result.riskLevel
            m == intervals'[Len(intervals')]
        IN /\ l = "severe" => m = 1
           /\ l = "high" => m = 2
           /\ l = "mild" => m = 5
           /\ l \notin {"severe", "high", "mild"} => m = 10
           /\ monitoringInterval' = Len(intervals')
           /\ intervalMinutes("severe") <= intervalMinutes("high")
           /\ intervalMinutes("high") <= intervalMinutes("mild")
           /\ intervalMinutes("mild") <= intervalMinutes("low") ]_vars

\* C4 witness: two polls completed, the first on a high, the second on a
\* severe status
C4_Witness ==
  /\ Len(intervals) = 2
  /\ intervals[2] = 1
  /\ monitoringInterval = 2

\* the static placeholder data the dashboard falls back to
PlaceholderShown == sensors # <<>>

\* C5: after a failure is handled the UI is disconnected or shows placeholder
\* data; here the failure is a WebSocket that the server or the network
\* closes under the mounted dashboard
C5_FailureFallsBack ==
  [][ \A s \in 1..Len(sockets) :
        (CloseStep(s) /\ sockets[s].state \in {"connecting", "open"} /\ mountId # 0)
          => (~isConnected' \/ PlaceholderShown') ]_vars

\* C6: a SEVERE reading delivered to the mounted dashboard turns the status
\* card red and adds exactly one entry, of type critical, to the alert list
C6_SevereReadingAlerts ==
  [][ \A s \in 1..Len(sockets) :
        (MessageStep(s) /\ CountIn(wsListeners, mountId) = 1
           /\ backendLog[sockets'[s].recv].parsable
           /\ backendLog[sockets'[s].recv].risk_level = "SEVERE")
          => /\ StatusCardColor(currentData') = "text-red-600"
             /\ alerts' = Append(alerts, "critical") ]_vars

\* C7: two readings the dashboard has shown with the same risk label get the
\* same risk colours, whatever their flood probabilities
C7_ColourByLabelOnly ==
  \A i, j \in 1..Len(data) :
    data[i].risk_level = data[j].risk_level
      => RiskColours(data[i]) = RiskColours(data[j])

\* C8: once no status check is in flight, every alert that was raised is in
\* the stored alert history
C8_NoLostAlert ==
  (\A p \in Procs : proc[p].pc = "idle")
    => Len(alertHistory) = (IF alertsShown <= HistoryKeep THEN alertsShown
                            ELSE HistoryKeep)

\* some async function of the dashboard is suspended at an await
SomethingSuspended ==
  \/ autoInflight > 0
  \/ refreshPc # 0
  \/ \E i \in 1..MaxMounts : initPc[i] \in {"reachable", "status", "readings"}

\* C9 as stated: whenever a WebSocket message handler or a timer callback runs,
\* nothing is suspended at an await
C9_NothingSuspended ==
  [][ ((\E s \in 1..Len(sockets) : MessageStep(s))
         \/ (timers # <<>> /\ timers' = Tail(timers)))
        => ~SomethingSuspended ]_vars

\* C9 as amended: the synchronous part of a message handler is one step (the
\* mounted dashboard's currentData, data and isConnected change together), and
\* a triggerAutoAlerts that resumes changes no dashboard state, although it
\* stayed suspended while other handlers ran
C9_HandlersAtomic ==
  [][ /\ \A s \in 1..Len(sockets) :
           (MessageStep(s) /\ CountIn(wsListeners, mountId) = 1
              /\ backendLog[sockets'[s].recv].parsable)
             => /\ currentData' = MessageReading(s)
                /\ data' # <<>>
                /\ data'[Len(data')] = MessageReading(s)
                /\ isConnected'
      /\ autoInflight' < autoInflight
           => UNCHANGED <<data, currentData, isConnected, isMonitoring, sensors,
                          alerts, sockets, ws, wsListeners, timers>> ]_vars

\* C9 witness: the same SEVERE reading arrived on two sockets, and the
\* triggerAutoAlerts of the first delivery was still suspended when the second
\* handler ran
C9_Witness ==
  /\ autoInflight = 2
  /\ Len(wsListeners) = 1
  /\ Len(data) >= 2
  /\ data[Len(data)] = data[Len(data) - 1]
  /\ currentData = data[Len(data)]

\* C10: a parsable message is handed to every registered listener exactly once,
\* in registration order; an unparsable one is handed to none, and changes
\* neither the sockets' states, the listeners nor the dashboard
C10_DeliveredInOrder ==
  [][ \A s \in 1..Len(sockets) :
        MessageStep(s) =>
          /\ wsListeners' = wsListeners
          /\ ws' = ws
          /\ \A k \in 1..Len(sockets) : sockets'[k].state = sockets[k].state
          /\ IF backendLog[sockets'[s].recv].parsable
             THEN delivered' = wsListeners
             ELSE /\ delivered' = <<>>
                  /\ UNCHANGED <<data, currentData, isConnected, autoInflight,
                                 timers>> ]_vars

\* C10 witness: one message went to two listeners
C10_Witness ==
  /\ Len(delivered) = 2
  /\ delivered[1] # delivered[2]
  /\ delivered = wsListeners

\* C11: once the dashboard's cleanup has run and no instance is mounted, the
\* client is disconnected: no socket is open or connecting, no reconnect timer
\* is pending and no real-time listener is registered
C11_StaysDisconnected ==
  mountId = 0 =>
    /\ \A s \in 1..Len(sockets) : sockets[s].state \notin {"connecting", "open"}
    /\ timers = <<>>
    /\ wsListeners = <<>>

\* the sockets that are open or connecting
LiveSockets == {s \in 1..Len(sockets) : sockets[s].state \in {"connecting", "open"}}

\* C12: at most one socket is open or connecting at any time, and no pushed
\* reading is held twice in the dashboard buffer
C12_SingleConnection ==
  /\ Cardinality(LiveSockets) <= 1
  /\ \A i, j \in 1..Len(data) : i # j => data[i].timestamp # data[j].timestamp

\* the setInterval timers that have not been cleared
ActiveIntervals == {i \in 1..Len(intervals) : intervals[i] # 0}

\* C13: at most one polling timer is active, and none once the HomeScreen is
\* unmounted
C13_OnePollingTimer ==
  /\ Cardinality(ActiveIntervals) <= 1
  /\ ~hsMounted => ActiveIntervals = {}

\* C14: whenever a flood alert is raised after an earlier one, at least 30
\* minutes have passed since the earlier one
C14_AlertsSpaced ==
  [][ (alertsShown' = alertsShown + 1 /\ lastAlertAt # NullItem)
        => now' - lastAlertAt >= 30 ]_vars

\* process p moves from program point a to program point b
Moves(p, a, b) == proc[p].pc = a /\ proc'[p].pc = b

\* C15: a check that has read lastFloodAlert goes on to show an alert exactly
\* when no time is recorded or more than the cooldown (30 minutes from 70%, else
\* 60) has passed since it; a suppressed check only stores the risk level; and
\* lastFloodAlert is written only by a check that has shown its alert, with the
\* time of that check
C15_CooldownGate ==
  [][ \A p \in Procs :
        /\ (proc[p].pc = "readLast" /\ proc'[p].pc # "readLast")
             => /\ proc'[p].t = now
                /\ IF \/ lastFloodAlert = NullItem
                      \/ now - lastFloodAlert > (IF proc[p].cur >= 70 THEN 30 ELSE 60)
                   THEN proc'[p].pc = "histRead" /\ proc'[p].after \in {"sms", "setLast"}
                   ELSE proc'[p].pc = "setRisk"
        /\ (proc[p].pc = "setRisk" /\ proc'[p].pc # "setRisk")
             => /\ proc'[p].pc = "ret"
                /\ UNCHANGED <<alertsShown, alertHistory, lastFloodAlert>>
        /\ (proc[p].pc # "sms" /\ proc'[p].pc = "sms") => proc[p].pc = "histWrite"
        /\ (proc[p].pc # "setLast" /\ proc'[p].pc = "setLast")
             => proc[p].pc \in {"histWrite", "sms"}
        /\ (proc[p].pc = "histWrite" /\ proc[p].after # "ret" /\ proc'[p].pc # "histWrite")
             => alertsShown' = alertsShown + 1 /\ proc'[p].pc \in {"sms", "setLast"}
        /\ (proc[p].pc = "setLast" /\ proc'[p].pc # "setLast")
             => lastFloodAlert' = proc[p].t
        /\ lastFloodAlert' # lastFloodAlert
             => \E q \in Procs : Moves(q, "setLast", "setRisk") ]_vars

\* C15 witness: a check made 60 minutes after the recorded alert, at 45%, was
\* suppressed and is about to store the risk level only
C15_Witness ==
  \E p \in Procs :
    /\ proc[p].pc = "setRisk"
    /\ proc[p].t = 60
    /\ proc[p].cur = 45
    /\ lastFloodAlert = 0

\* C16: when a call of checkRiskAndNotify completes (getFloodStatus found a
\* stored lastRiskLevel and called it), the stored lastRiskLevel is the current
\* probability of that call
C16_RiskLevelStored ==
  [][ \A p \in Procs :
        (proc[p].pc \in {"readPrev", "setRisk"} /\ proc'[p].pc = "ret")
          => lastRiskLevel' = proc[p].cur ]_vars

\* C17: with a stored previous value, a reading is treated as alert-worthy
\* exactly when it is at least 40% or at least 5 points above the stored value
C17_AlertWorthy ==
  [][ \A p \in Procs :
        (proc[p].pc = "readPrev" /\ proc'[p].pc # "readPrev" /\ lastRiskLevel # NullItem)
          => (proc'[p].pc = "readLast"
                <=> (proc[p].cur >= 40 \/ proc[p].cur - lastRiskLevel >= 5)) ]_vars

\* C18: the SMS request is posted only by a check that has just shown its
\* local alert, and only at 70% or more or at risk level high or severe;
\* whatever the request's outcome the alert and its history entry stay, and the
\* check goes on to record lastFloodAlert
C18_SmsInsideAlert ==
  [][ \A p \in Procs :
        /\ (proc[p].pc # "sms" /\ proc'[p].pc = "sms")
             => /\ proc[p].pc = "histWrite"
                /\ alertsShown' = alertsShown + 1
                /\ alertHistory' # <<>>
                /\ (proc[p].cur >= 70 \/ proc[p].riskLevel \in {"high", "severe"})
        /\ (proc[p].pc = "sms" /\ proc'[p].pc # "sms")
             => /\ proc'[p].pc = "setLast"
                /\ proc'[p].t = proc[p].t
                /\ UNCHANGED <<alertsShown, alertHistory>>
        /\ Moves(p, "setLast", "setRisk") => lastFloodAlert' = proc[p].t
        /\ (proc[p].pc = "histWrite" /\ proc[p].after = "ret" /\ proc'[p].pc # "histWrite")
             => proc'[p].pc = "ret" ]_vars

\* C18 witness: a check at 85% has shown its alert and its SMS request is in
\* flight
C18_Witness ==
  \E p \in Procs :
    /\ proc[p].pc = "sms"
    /\ proc[p].cur = 85
    /\ alertsShown >= 1
    /\ alertHistory # <<>>

\* C19: a message delivered to the mounted dashboard starts exactly one
\* auto-send request when its label is HIGH or SEVERE in any case, and none
\* otherwise; a request that completes, failed or not, changes no dashboard
\* state
C19_OneAutoSendPerReading ==
  [][ /\ \A s \in 1..Len(sockets) :
           (MessageStep(s) /\ CountIn(wsListeners, mountId) = 1
              /\ backendLog[sockets'[s].recv].parsable)
             => autoInflight' = autoInflight
                  + (IF backendLog[sockets'[s].recv].risk_level
                          \in {"HIGH", "SEVERE", "high", "severe"}
                     THEN 1 ELSE 0)
      /\ autoInflight' < autoInflight
           => UNCHANGED <<data, currentData, isConnected, isMonitoring, sensors,
                          alerts>> ]_vars

====
